---- MODULE Spec2Model ----
(***************************************************************************)
(* A model of alignparse/cs_tag.py: the tokenizer and classifier of the    *)
(* short cs tag (split_cs, cs_op_type, cs_op_len_target), the Alignment    *)
(* record with its per-operation coordinate index, Alignment.extract_cs,   *)
(* and cs_to_mutation_str.                                                 *)
(*                                                                         *)
(* A Python str is a sequence of one-character strings; a Python list of   *)
(* str is a sequence of such sequences.  The outcome of a call is a record *)
(* whose field kind says how the call ended ("raise", "None", ...).        *)
(***************************************************************************)
EXTENDS Integers, Sequences, FiniteSets, TLC

VARIABLES
    text,      \* SpecTok: the str handed to split_cs / cs_op_type / cs_op_len_target
    invalid,   \* SpecTok: the keyword argument `invalid`
    tokcall,   \* SpecTok: the last call and how it ended
    sam,       \* Spec: the pysam.AlignedSegment handed to Alignment(...)
    self,      \* Spec: the Alignment object (phase "new" before __init__ ran)
    self0,     \* Spec: the Alignment object as __init__ left it (history)
    call,      \* Spec: the extract_cs call in progress or just ended
    th,        \* SpecThreads: per thread, the extract_cs call it is inside
    mcs,       \* SpecMut: the cs handed to cs_to_mutation_str
    offset,    \* SpecMut: the offset handed to cs_to_mutation_str
    mut        \* SpecMut: how cs_to_mutation_str ended

vars == <<text, invalid, tokcall, sam, self, self0, call, th, mcs, offset, mut>>

(***************************************************************************)
(* Python str and list primitives                                          *)
(***************************************************************************)
Min(a, b) == IF a <= b THEN a ELSE b

Max(a, b) == IF a >= b THEN a ELSE b

\* s[a:b] for a, b >= 0 (both clamped to len(s); empty when a >= b)
PySlice(s, a, b) ==
    LET lo == Min(a, Len(s))
        hi == Min(b, Len(s))
    IN  IF lo >= hi THEN <<>> ELSE SubSeq(s, lo + 1, hi)

\* s[a:] for a >= 0
PySliceFrom(s, a) == PySlice(s, a, Len(s))

\* s[-k:] : the last k items for k > 0 (all of s when k > len(s));
\* k = 0 is s[-0:] = s[0:], all of s
PySliceLast(s, k) ==
    IF k <= 0 THEN PySliceFrom(s, -k) ELSE PySliceFrom(s, Max(0, Len(s) - k))

\* ''.join(list)
RECURSIVE Join(_)
Join(list) == IF list = <<>> THEN <<>> ELSE Head(list) \o Join(Tail(list))

\* sep.join(list)
RECURSIVE JoinSep(_, _)
JoinSep(sep, list) ==
    IF list = <<>> THEN <<>>
    ELSE IF Len(list) = 1 THEN Head(list)
    ELSE Head(list) \o sep \o JoinSep(sep, Tail(list))

DigitChars == <<"0", "1", "2", "3", "4", "5", "6", "7", "8", "9">>

Digits == {DigitChars[i] : i \in 1..10}

DigitVal(c) == (CHOOSE i \in 1..10 : DigitChars[i] = c) - 1

\* str(n) of a non-negative int
RECURSIVE StrNat(_)
StrNat(n) == IF n < 10 THEN <<DigitChars[n + 1]>>
             ELSE StrNat(n \div 10) \o <<DigitChars[(n % 10) + 1]>>

\* str(n) of an int
Str(n) == IF n < 0 THEN <<"-">> \o StrNat(-n) ELSE StrNat(n)

\* int(s) of a non-empty str of ASCII digits
RECURSIVE ParseInt(_)
ParseInt(s) == IF Len(s) = 1 THEN DigitVal(s[1])
          ELSE 10 * ParseInt(SubSeq(s, 1, Len(s) - 1)) + DigitVal(s[Len(s)])

\* str.upper() on the characters a cs tag or a str(int) can hold
UpperChar(c) ==
    CASE c = "a" -> "A" [] c = "c" -> "C" [] c = "g" -> "G"
      [] c = "t" -> "T" [] c = "n" -> "N" [] OTHER -> c

Upper(s) == [i \in 1..Len(s) |-> UpperChar(s[i])]

(***************************************************************************)
(* _CS_OPS, _CS_STR_REGEX, _CS_OP_REGEX                                    *)
(***************************************************************************)
Bases == {"a", "c", "g", "t", "n"}

\* the number of consecutive characters of class S in s from index i (1-based)
RECURSIVE RunLen(_, _, _)
RunLen(s, i, S) ==
    IF i > Len(s) \/ s[i] \notin S THEN 0 ELSE 1 + RunLen(s, i + 1, S)

NoMatch == [ok |-> FALSE, caps |-> <<>>]

\* (op)* anchored at both ends by fullmatch, from index i: the alternatives
\* of _CS_OPS are tried in order, a + quantifier longest run first (k
\* characters after the operator, then k - 1, ... on backtracking), and the
\* group's captures are those of the repetitions of the match found.
RECURSIVE CsStrFrom(_, _), CsStrTry(_, _, _)
CsStrTry(s, i, k) ==
    IF k < 1 THEN NoMatch
    ELSE LET rest == CsStrFrom(s, i + 1 + k)
         IN  IF rest.ok
             THEN [ok |-> TRUE, caps |-> <<SubSeq(s, i, i + k)>> \o rest.caps]
             ELSE CsStrTry(s, i, k - 1)

CsStrFrom(s, i) ==
    IF i > Len(s) THEN [ok |-> TRUE, caps |-> <<>>]
    ELSE CASE s[i] = ":" -> CsStrTry(s, i, RunLen(s, i + 1, Digits))
           [] s[i] = "*" ->
                IF RunLen(s, i + 1, Bases) >= 2
                THEN LET rest == CsStrFrom(s, i + 3)
                     IN  IF rest.ok
                         THEN [ok |-> TRUE,
                               caps |-> <<SubSeq(s, i, i + 2)>> \o rest.caps]
                         ELSE NoMatch
                ELSE NoMatch
           [] s[i] \in {"+", "-"} -> CsStrTry(s, i, RunLen(s, i + 1, Bases))
           [] OTHER -> NoMatch

\* Sensitivity variant of CsStrFullmatch: match() in place of fullmatch(), which
\* stops at the first character that starts no operation
RECURSIVE CsStrPrefixFrom(_, _)
CsStrPrefixFrom(s, i) ==
    LET k == IF i > Len(s) THEN 0
             ELSE CASE s[i] = ":" -> RunLen(s, i + 1, Digits)
                    [] s[i] = "*" -> IF RunLen(s, i + 1, Bases) >= 2 THEN 2 ELSE 0
                    [] s[i] \in {"+", "-"} -> RunLen(s, i + 1, Bases)
                    [] OTHER -> 0
    IN  IF k = 0 THEN <<>>
        ELSE <<SubSeq(s, i, i + k)>> \o CsStrPrefixFrom(s, i + 1 + k)

CsStrMatch(s) == [ok |-> TRUE, caps |-> CsStrPrefixFrom(s, 1)]

\* _CS_STR_REGEX.fullmatch(cs_string), with m.captures(1)
CsStrFullmatch(s) == CsStrFrom(s, 1)

\* _CS_OP_REGEX.fullmatch(cs_op): the name of the one group that matches all
\* of cs_op (m.lastgroup), "" for no match
CsOpFullmatch(s) ==
    IF Len(s) < 2 THEN ""
    ELSE CASE s[1] = ":" /\ RunLen(s, 2, Digits) = Len(s) - 1 -> "identity"
           [] s[1] = "*" /\ Len(s) = 3 /\ RunLen(s, 2, Bases) = 2 -> "substitution"
           [] s[1] = "+" /\ RunLen(s, 2, Bases) = Len(s) - 1 -> "insertion"
           [] s[1] = "-" /\ RunLen(s, 2, Bases) = Len(s) - 1 -> "deletion"
           [] OTHER -> ""

(***************************************************************************)
(* split_cs, cs_op_type, cs_op_len_target                                  *)
(***************************************************************************)
Raise(exc, at) == [kind |-> "raise", exc |-> exc, at |-> at]

ReturnNone == [kind |-> "None"]

split_cs(cs_string, inv) ==
    LET m == CsStrFullmatch(cs_string)
    IN  IF ~m.ok
        THEN IF inv = "ignore" THEN ReturnNone
             ELSE IF inv = "raise" THEN Raise("ValueError", "invalid cs_string")
             ELSE Raise("ValueError", "invalid invalid")
        ELSE [kind |-> "list", val |-> m.caps]

cs_op_type(cs_op, inv) ==
    LET m == CsOpFullmatch(cs_op)
    IN  IF m = ""
        THEN IF inv = "ignore" THEN ReturnNone
             ELSE IF inv = "raise" THEN Raise("ValueError", "invalid cs_op")
             ELSE Raise("ValueError", "invalid invalid")
        ELSE [kind |-> "str", val |-> m]

cs_op_len_target(cs_op, inv) ==
    LET op_type == cs_op_type(cs_op, inv)
    IN  IF op_type.kind = "raise" THEN op_type
        ELSE IF op_type.kind = "None" THEN ReturnNone
        ELSE CASE op_type.val = "identity" ->
                    [kind |-> "int", val |-> ParseInt(PySliceFrom(cs_op, 1))]
               [] op_type.val = "substitution" -> [kind |-> "int", val |-> 1]
               [] op_type.val = "deletion" -> [kind |-> "int", val |-> Len(cs_op) - 1]
               [] op_type.val = "insertion" -> [kind |-> "int", val |-> 0]
               [] OTHER -> Raise("ValueError", "invalid op_type")

(***************************************************************************)
(* numpy primitives used by Alignment                                      *)
(***************************************************************************)
\* a[i] for a 0-based index i
At(a, i) == a[i + 1]

\* numpy.cumsum(a)
RECURSIVE CumSum(_)
CumSum(a) ==
    IF a = <<>> THEN <<>>
    ELSE LET front == CumSum(SubSeq(a, 1, Len(a) - 1))
         IN  Append(front, (IF front = <<>> THEN 0 ELSE front[Len(front)]) + a[Len(a)])

\* numpy.amax(a), numpy.amin(a) of a non-empty array
AMax(a) == CHOOSE x \in {a[i] : i \in 1..Len(a)} : \A j \in 1..Len(a) : a[j] <= x

AMin(a) == CHOOSE x \in {a[i] : i \in 1..Len(a)} : \A j \in 1..Len(a) : a[j] >= x

\* numpy.searchsorted(a, v, side='right') on a sorted array: the index i with
\* a[:i] <= v < a[i:], which is the number of items <= v
SearchSortedRight(a, v) == Cardinality({i \in 1..Len(a) : a[i] <= v})

(***************************************************************************)
(* Alignment.__init__                                                      *)
(* Of the attributes, query_name, target_name, query_clip5, query_clip3,   *)
(* target_lastpos and orientation are plain copies of fields of the        *)
(* segment that no method reads; they are left out.                        *)
(***************************************************************************)
NewAlignment ==
    [phase |-> "new", exc |-> "", at |-> "", target_clip5 |-> 0, cs |-> <<>>,
     cs_ops |-> <<>>, cs_ops_lengths_target |-> <<>>, cs_ops_ends |-> <<>>,
     cs_ops_starts |-> <<>>, nops |-> 0]

\* the per-op target lengths: [cs_op_len_target(op) for op in self._cs_ops]
OpsLengths(ops) == [i \in 1..Len(ops) |-> cs_op_len_target(ops[i], "raise")]

\* self._cs_ops_ends = target_clip5 + numpy.cumsum(lengths)
OpsEnds(target_clip5, lengths) ==
    LET c == CumSum(lengths) IN [i \in 1..Len(c) |-> target_clip5 + c[i]]

\* self._cs_ops_starts = numpy.append(numpy.array(target_clip5), ends[:-1])
OpsStarts(target_clip5, ends) ==
    <<target_clip5>> \o PySlice(ends, 0, Len(ends) - 1)

AlignmentInit(sam_alignment) ==
    IF sam_alignment.is_unmapped
    THEN [NewAlignment EXCEPT !.phase = "raise", !.exc = "ValueError",
                              !.at = "is unmapped"]
    ELSE
    LET clip5 == sam_alignment.reference_start
        cs == sam_alignment.cs
        s1 == [NewAlignment EXCEPT !.target_clip5 = clip5, !.cs = cs]
        ops == split_cs(cs, "raise")
    IN  IF ops.kind = "raise"
        THEN [s1 EXCEPT !.phase = "raise", !.exc = ops.exc, !.at = ops.at]
        ELSE
        LET lens == OpsLengths(ops.val)
        IN  IF \E i \in 1..Len(lens) : lens[i].kind = "raise"
            THEN [s1 EXCEPT !.phase = "raise", !.exc = "ValueError",
                            !.at = "invalid cs_op", !.cs_ops = ops.val]
            ELSE
            LET lengths == [i \in 1..Len(lens) |-> lens[i].val]
                ends == OpsEnds(clip5, lengths)
                starts == OpsStarts(clip5, ends)
                nops == Len(ops.val)
                s2 == [s1 EXCEPT !.cs_ops = ops.val,
                                 !.cs_ops_lengths_target = lengths,
                                 !.cs_ops_ends = ends,
                                 !.cs_ops_starts = starts,
                                 !.nops = nops]
            IN  IF nops # Len(lengths)
                THEN [s2 EXCEPT !.phase = "raise", !.exc = "AssertionError",
                                !.at = "nops == len(lengths)"]
                ELSE IF nops # Len(ends)
                THEN [s2 EXCEPT !.phase = "raise", !.exc = "AssertionError",
                                !.at = "nops == len(ends)"]
                ELSE IF nops # Len(starts)
                THEN [s2 EXCEPT !.phase = "raise", !.exc = "AssertionError",
                                !.at = "nops == len(starts)"]
                ELSE IF \E i \in 1..nops : ends[i] - starts[i] # lengths[i]
                THEN [s2 EXCEPT !.phase = "raise", !.exc = "AssertionError",
                                !.at = "ends - starts == lengths"]
                ELSE [s2 EXCEPT !.phase = "ok"]

(***************************************************************************)
(* Alignment.extract_cs, in the order of its statements.  Each part        *)
(* returns the locals it sets, with exc = "" unless it raises.             *)
(***************************************************************************)
\* the argument checks and the two fast rejections: "" to go on, "None" to
\* return None, else what is raised
ExtractArgs(obj, start, end) ==
    IF start < 0 THEN "ValueError: invalid start"
    ELSE IF end <= start THEN "ValueError: end not > start"
    ELSE IF obj.cs_ops_ends = <<>> THEN "ValueError: amax of empty array"
    ELSE IF start >= AMax(obj.cs_ops_ends) THEN "None"
    ELSE IF end <= AMin(obj.cs_ops_starts) THEN "None"
    ELSE ""

\* numpy.searchsorted(a, v, side='left'): the number of items < v
SearchSortedLeft(a, v) == Cardinality({i \in 1..Len(a) : a[i] < v})

\* Sensitivity variant of StartIdx: side='left'
StartIdxLeft(obj, start) == SearchSortedLeft(obj.cs_ops_ends, start)

\* start_idx = numpy.searchsorted(self._cs_ops_ends, start, side='right')
StartIdx(obj, start) == SearchSortedRight(obj.cs_ops_ends, start)

StartPartOf(exc, at, start_idx, clip5, feature) ==
    [exc |-> exc, at |-> at, start_idx |-> start_idx, clip5 |-> clip5,
     feature |-> feature]

\* Sensitivity variant of StartFragment: the deletion keeps its first bases,
\* start_op[1: 1 + start_overlap], not its last
StartFragmentHead(start_op, start_op_type, start_overlap) ==
    IF start_op_type = "identity" THEN <<":">> \o Str(start_overlap)
    ELSE <<"-">> \o PySlice(start_op, 1, 1 + start_overlap)

\* lines 298-301: the part of an identity or deletion from `start` on,
\* f":{start_overlap}" or f"-{start_op[-start_overlap:]}"
StartFragment(start_op, start_op_type, start_overlap) ==
    IF start_op_type = "identity" THEN <<":">> \o Str(start_overlap)
    ELSE <<"-">> \o PySliceLast(start_op, start_overlap)

\* the start op and the part of it that overlaps the feature
ExtractStart(obj, start, end) ==
    LET start_idx == StartIdx(obj, start)
    IN  IF start_idx >= Len(obj.cs_ops_starts) \/ start_idx >= Len(obj.cs_ops_ends)
           \/ start_idx >= Len(obj.cs_ops)
        THEN StartPartOf("IndexError", "start_idx", start_idx, 0, <<>>)
        ELSE
        LET start_op_start == At(obj.cs_ops_starts, start_idx)
            start_op_end == At(obj.cs_ops_ends, start_idx)
            start_op == At(obj.cs_ops, start_idx)
        IN  IF ~(start_idx < obj.nops)
            THEN StartPartOf("AssertionError", "start_idx < nops", start_idx, 0, <<>>)
            ELSE IF ~(start < start_op_end)
            THEN StartPartOf("AssertionError", "start < start_op_end", start_idx, 0, <<>>)
            ELSE IF start_op_start > start
            THEN IF start_idx # 0
                 THEN StartPartOf("AssertionError", "5' clip not at 5' end",
                                  start_idx, 0, <<>>)
                 ELSE StartPartOf("", "", start_idx, start_op_start - start,
                                  <<start_op>>)
            ELSE
            LET start_overlap == start_op_end - start
                start_op_type == cs_op_type(start_op, "raise")
            IN  IF ~(start_overlap >= 0)
                THEN StartPartOf("AssertionError", "start_overlap >= 0",
                                 start_idx, 0, <<>>)
                ELSE IF start_op_type.kind = "raise"
                THEN StartPartOf(start_op_type.exc, start_op_type.at, start_idx, 0, <<>>)
                ELSE IF start_op_start = start /\ end >= start_op_end
                THEN StartPartOf("", "", start_idx, 0, <<start_op>>)
                ELSE IF start_op_type.val \in {"identity", "deletion"}
                THEN StartPartOf("", "", start_idx, 0,
                         <<StartFragment(start_op, start_op_type.val, start_overlap)>>)
                ELSE IF start_op_type.val = "insertion"
                THEN StartPartOf("RuntimeError", "insertion should not be feature start",
                                 start_idx, 0, <<>>)
                ELSE StartPartOf("RuntimeError", "unrecognized op type (start)",
                                 start_idx, 0, <<>>)

\* the while loop of lines 311-313
RECURSIVE EndIdxLoop(_, _, _)
EndIdxLoop(obj, end, end_idx) ==
    IF end > At(obj.cs_ops_ends, end_idx) /\ end_idx + 1 < obj.nops
    THEN EndIdxLoop(obj, end, end_idx + 1)
    ELSE end_idx

\* Sensitivity variant of EndIdx: side='left'
EndIdxLeft(obj, end) ==
    EndIdxLoop(obj, end, Max(0, SearchSortedLeft(obj.cs_ops_ends, end) - 1))

\* end_idx = max(0, searchsorted(ends, end, side='right') - 1), then the loop
EndIdx(obj, end) ==
    EndIdxLoop(obj, end, Max(0, SearchSortedRight(obj.cs_ops_ends, end) - 1))

EndPartOf(exc, at, end_idx, clip3, feat_cs_end) ==
    [exc |-> exc, at |-> at, end_idx |-> end_idx, clip3 |-> clip3,
     feat_cs_end |-> feat_cs_end]

\* Sensitivity variant of EndFragment: the deletion is cut at end_overlap,
\* end_op[: end_overlap], one short for the operator character
EndFragmentShort(end_op, end_op_type, end_overlap) ==
    IF end_op_type = "identity" THEN <<":">> \o Str(end_overlap)
    ELSE PySlice(end_op, 0, end_overlap)

\* lines 332-335: the part of an identity or deletion up to `end`,
\* f":{end_overlap}" or end_op[: end_overlap + 1]
EndFragment(end_op, end_op_type, end_overlap) ==
    IF end_op_type = "identity" THEN <<":">> \o Str(end_overlap)
    ELSE PySlice(end_op, 0, end_overlap + 1)

\* the end op and feat_cs_end, the part of it that overlaps the feature
ExtractEnd(obj, start, end, start_idx) ==
    LET end_idx == EndIdx(obj, end)
        end_op_start == At(obj.cs_ops_starts, end_idx)
        end_op_end == At(obj.cs_ops_ends, end_idx)
        end_op == At(obj.cs_ops, end_idx)
    IN  IF ~(start_idx <= end_idx /\ end_idx <= obj.nops)
        THEN EndPartOf("AssertionError", "start_idx <= end_idx <= nops", end_idx, 0, <<>>)
        ELSE IF ~(end <= end_op_end \/ end_idx = obj.nops - 1)
        THEN EndPartOf("AssertionError", "end <= end_op_end or last op", end_idx, 0, <<>>)
        ELSE IF ~(end >= end_op_start)
        THEN EndPartOf("AssertionError", "end >= end_op_start", end_idx, 0, <<>>)
        ELSE IF end > end_op_end
        THEN IF end_idx # obj.nops - 1
             THEN EndPartOf("AssertionError", "clip3 not at end", end_idx, 0, <<>>)
             ELSE EndPartOf("", "", end_idx, end - end_op_end, end_op)
        ELSE IF end = end_op_end
        THEN EndPartOf("", "", end_idx, 0, end_op)
        ELSE
        LET end_overlap == end - end_op_start
            end_op_type == cs_op_type(end_op, "raise")
        IN  IF ~(end_overlap > 0)
            THEN EndPartOf("AssertionError", "end_overlap > 0", end_idx, 0, <<>>)
            ELSE IF end_op_type.kind = "raise"
            THEN EndPartOf(end_op_type.exc, end_op_type.at, end_idx, 0, <<>>)
            ELSE IF end_op_type.val \in {"identity", "deletion"}
            THEN EndPartOf("", "", end_idx, 0,
                           EndFragment(end_op, end_op_type.val, end_overlap))
            ELSE IF end_op_type.val = "insertion"
            THEN EndPartOf("RuntimeError", "should not get here as end == end_op_end",
                           end_idx, 0, <<>>)
            ELSE EndPartOf("RuntimeError", "unrecognized op type (end)", end_idx, 0, <<>>)

AssembledOf(exc, at, feature_cs) == [exc |-> exc, at |-> at, feature_cs |-> feature_cs]

\* lines 341-360: the one op clipped on both sides, or the parts joined
ExtractAssemble(obj, start, end, sp, ep) ==
    IF sp.start_idx = ep.end_idx
    THEN LET start_op == At(obj.cs_ops, sp.start_idx)
             end_op == At(obj.cs_ops, ep.end_idx)
             start_op_start == At(obj.cs_ops_starts, sp.start_idx)
             end_op_start == At(obj.cs_ops_starts, ep.end_idx)
             end_op_end == At(obj.cs_ops_ends, ep.end_idx)
             op_type == cs_op_type(start_op, "raise")
         IN  IF start_op # end_op
             THEN AssembledOf("AssertionError", "start_op == end_op", <<>>)
             ELSE IF op_type.kind = "raise"
             THEN AssembledOf(op_type.exc, op_type.at, <<>>)
             ELSE IF op_type.val = "identity"
             THEN AssembledOf("", "", <<":">> \o Str(end - start - sp.clip5 - ep.clip3))
             ELSE IF op_type.val = "substitution"
             THEN AssembledOf("", "", end_op)
             ELSE IF op_type.val = "deletion"
             THEN LET del_start == Max(0, start - start_op_start)
                      del_end == end_op_end - end_op_start - Max(0, end_op_end - end)
                  IN  AssembledOf("", "",
                          <<"-">> \o PySlice(end_op, del_start + 1, del_end + 1))
             ELSE IF op_type.val = "insertion"
             THEN AssembledOf("RuntimeError", "start_idx != end_idx for insertion", <<>>)
             ELSE AssembledOf("RuntimeError", "unrecognized op type (single)", <<>>)
    ELSE AssembledOf("", "",
             Join(sp.feature
                  \o PySlice(obj.cs_ops, sp.start_idx + 1, ep.end_idx)
                  \o <<ep.feat_cs_end>>))

\* sum(cs_op_len_target(op) for op in ops)
RECURSIVE SumLenTarget(_)
SumLenTarget(ops) ==
    IF ops = <<>> THEN 0
    ELSE cs_op_len_target(Head(ops), "raise").val + SumLenTarget(Tail(ops))

\* the assertion of lines 363-364: "" when it passes, else what is raised
ExtractVerify(feature_cs, clip5, clip3, start, end) ==
    LET ops == split_cs(feature_cs, "raise")
    IN  IF ops.kind = "raise" THEN "ValueError"
        ELSE IF SumLenTarget(ops.val) + clip5 + clip3 # end - start
        THEN "AssertionError"
        ELSE ""

Outcome(kind, exc, at, feature_cs, clip5, clip3, start_idx, end_idx) ==
    [kind |-> kind, exc |-> exc, at |-> at, feature_cs |-> feature_cs,
     clip5 |-> clip5, clip3 |-> clip3, start_idx |-> start_idx, end_idx |-> end_idx]

NoOutcome == Outcome("", "", "", <<>>, 0, 0, -1, -1)

\* extract_cs(start, end): kind "tuple" with (feature_cs, clip5, clip3),
\* "None", or "raise"; the locals are kept as they stood when it ended
extract_cs(obj, start, end) ==
    LET a == ExtractArgs(obj, start, end)
    IN  IF a = "None" THEN [NoOutcome EXCEPT !.kind = "None"]
        ELSE IF a # "" THEN [NoOutcome EXCEPT !.kind = "raise", !.exc = "ValueError", !.at = a]
        ELSE
        LET sp == ExtractStart(obj, start, end)
        IN  IF sp.exc # ""
            THEN Outcome("raise", sp.exc, sp.at, <<>>, sp.clip5, 0, sp.start_idx, -1)
            ELSE
            LET ep == ExtractEnd(obj, start, end, sp.start_idx)
            IN  IF ep.exc # ""
                THEN Outcome("raise", ep.exc, ep.at, <<>>, sp.clip5, ep.clip3,
                             sp.start_idx, ep.end_idx)
                ELSE
                LET as == ExtractAssemble(obj, start, end, sp, ep)
                IN  IF as.exc # ""
                    THEN Outcome("raise", as.exc, as.at, <<>>, sp.clip5, ep.clip3,
                                 sp.start_idx, ep.end_idx)
                    ELSE
                    LET v == ExtractVerify(as.feature_cs, sp.clip5, ep.clip3, start, end)
                    IN  IF v # ""
                        THEN Outcome("raise", v, "length conservation", as.feature_cs,
                                     sp.clip5, ep.clip3, sp.start_idx, ep.end_idx)
                        ELSE Outcome("tuple", "", "", as.feature_cs, sp.clip5,
                                     ep.clip3, sp.start_idx, ep.end_idx)

\* Sensitivity variant of ExtractStores: the start op is trimmed in place,
\* self._cs_ops[start_idx] = <the overlapping part>
ExtractStoresTrimmed(obj, start, end) ==
    IF ExtractArgs(obj, start, end) # "" THEN obj
    ELSE LET sp == ExtractStart(obj, start, end)
         IN  IF sp.exc # "" THEN obj
             ELSE [obj EXCEPT !.cs_ops[sp.start_idx + 1] = sp.feature[1]]

\* What extract_cs leaves in the attributes of self: it assigns to no
\* self.* name and calls no mutating method on self._cs_ops or the arrays
\* (feature_cs is a fresh list, self._cs_ops[i:j] a copy).
ExtractStores(obj, start, end) == obj

(***************************************************************************)
(* Bounds and inputs                                                       *)
(***************************************************************************)
MaxOps == 3

MaxClip5 == 1

MaxCoord == 6

\* the operations the scripts are made of: identities of zero, one and
\* several bases, a substitution, an insertion, deletions of one and several
OpUniverse ==
    { <<":", "0">>, <<":", "1">>, <<":", "3">>, <<"*", "a", "c">>,
      <<"+", "a">>, <<"-", "a">>, <<"-", "a", "c", "g">> }

\* all lists of at most n operations
RECURSIVE OpLists(_)
OpLists(n) ==
    IF n = 0 THEN {<<>>}
    ELSE LET shorter == OpLists(n - 1)
         IN  shorter \cup {Append(l, op) : l \in {x \in shorter : Len(x) = n - 1},
                                           op \in OpUniverse}

\* the cs tags of the segments: every script of at most MaxOps operations
\* (the empty tag included) and two tags that are no cs tag
CsTags == {Join(l) : l \in OpLists(MaxOps)} \cup {<<"=">>, <<":", "1", "+">>}

Segments ==
    [is_unmapped : {FALSE}, reference_start : 0..MaxClip5, cs : CsTags]
    \cup [is_unmapped : {TRUE}, reference_start : {0}, cs : {<<":", "1">>}]

Idle == [pc |-> "idle", start |-> 0, end |-> 0, out |-> NoOutcome]

(***************************************************************************)
(* Spec: one Alignment, built from a segment and then queried              *)
(***************************************************************************)
Init ==
    /\ sam \in Segments
    /\ self = NewAlignment
    /\ self0 = NewAlignment
    /\ call = Idle
    /\ th = <<>>
    /\ text = <<>> /\ invalid = "raise" /\ tokcall = [op |-> "", out |-> ReturnNone]
    /\ mcs = <<>> /\ offset = 0 /\ mut = ReturnNone

\* a = Alignment(sam)
Construct ==
    /\ self.phase = "new"
    /\ self' = AlignmentInit(sam)
    /\ self0' = self'
    /\ UNCHANGED <<text, invalid, tokcall, sam, call, th, mcs, offset, mut>>

\* a.extract_cs(start, end)
ExtractCs ==
    /\ self.phase = "ok"
    /\ call.pc = "idle"
    /\ \E start \in -1..MaxCoord, end \in 0..MaxCoord :
          /\ call' = [pc |-> "done", start |-> start, end |-> end,
                      out |-> extract_cs(self, start, end)]
          /\ self' = ExtractStores(self, start, end)
    /\ UNCHANGED <<text, invalid, tokcall, sam, self0, th, mcs, offset, mut>>

\* the caller drops the result and is free to call again
ExtractDone ==
    /\ call.pc = "done"
    /\ call' = Idle
    /\ UNCHANGED <<text, invalid, tokcall, sam, self, self0, th, mcs, offset, mut>>

Next == Construct \/ ExtractCs \/ ExtractDone

Spec == Init /\ [][Next]_vars

(***************************************************************************)
(* The cs grammar, stated on its own: a text is a cs tag when it can be    *)
(* cut into pieces that are each one operation.                            *)
(***************************************************************************)
IsOpText(t) ==
    /\ Len(t) >= 2
    /\ \/ t[1] = ":" /\ \A i \in 2..Len(t) : t[i] \in Digits
       \/ t[1] = "*" /\ Len(t) = 3 /\ t[2] \in Bases /\ t[3] \in Bases
       \/ t[1] \in {"+", "-"} /\ \A i \in 2..Len(t) : t[i] \in Bases

RECURSIVE IsCsText(_)
IsCsText(s) ==
    \/ s = <<>>
    \/ \E k \in 2..Len(s) :
          IsOpText(SubSeq(s, 1, k)) /\ IsCsText(SubSeq(s, k + 1, Len(s)))

\* the target length of one operation, by its kind
TargetLength(t) ==
    CASE t[1] = ":" -> ParseInt(Tail(t))
      [] t[1] = "*" -> 1
      [] t[1] = "+" -> 0
      [] t[1] = "-" -> Len(t) - 1

RECURSIVE SumTargetLength(_)
SumTargetLength(ops) ==
    IF ops = <<>> THEN 0 ELSE TargetLength(Head(ops)) + SumTargetLength(Tail(ops))

MaxOf(S) == CHOOSE x \in S : \A y \in S : y <= x

\* the call that just ended was handed an interval with end > start >= 0
ValidCall == call.pc = "done" /\ call.start >= 0 /\ call.end > call.start

\* the operations of a returned feature_cs
OpsOf(feature_cs) == split_cs(feature_cs, "raise").val

(***************************************************************************)
(* C1  Length conservation.  Every extract_cs call that gets as far as     *)
(* its assembled feature_cs ends by returning the tuple, and in it the     *)
(* target lengths of the operations of feature_cs plus clip5 plus clip3    *)
(* equal end - start, with clip5 >= 0 and clip3 >= 0.                      *)
(***************************************************************************)
C1_LengthConservation ==
    call.pc = "done" /\ (call.out.kind = "tuple" \/ call.out.at = "length conservation")
    => /\ call.out.kind = "tuple"
       /\ IsCsText(call.out.feature_cs)
       /\ SumTargetLength(OpsOf(call.out.feature_cs)) + call.out.clip5 + call.out.clip3
            = call.end - call.start
       /\ call.out.clip5 >= 0
       /\ call.out.clip3 >= 0

\* a feature that starts inside a deletion and ends inside a later operation
C1_Witness ==
    /\ call.pc = "done" /\ call.out.kind = "tuple"
    /\ call.out.start_idx < call.out.end_idx
    /\ At(self.cs_ops, call.out.start_idx)[1] = "-"
    /\ At(self.cs_ops_starts, call.out.start_idx) < call.start
    /\ call.end < At(self.cs_ops_ends, call.out.end_idx)

(***************************************************************************)
(* C3  Coordinate index.  As claimed: from every mapped segment whose cs   *)
(* is a valid script of n operations (n = 0 included), construction        *)
(* succeeds, starts and ends have length n, starts[0] = target_clip5,      *)
(* ends[i] = starts[i] + target_length(op[i]), starts[i+1] = ends[i] and   *)
(* ends[n-1] - starts[0] is the sum of the target lengths.                 *)
(***************************************************************************)
C3_CoordinateIndex ==
    self.phase # "new" /\ ~sam.is_unmapped /\ IsCsText(sam.cs)
    => LET n == Len(self.cs_ops)
           starts == self.cs_ops_starts
           ends == self.cs_ops_ends
       IN  /\ self.phase = "ok"
           /\ Join(self.cs_ops) = sam.cs
           /\ Len(starts) = n /\ Len(ends) = n
           /\ n > 0 => starts[1] = sam.reference_start
           /\ \A i \in 1..n : ends[i] = starts[i] + TargetLength(self.cs_ops[i])
           /\ \A i \in 1..(n - 1) : starts[i + 1] = ends[i]
           /\ n > 0 => ends[n] - starts[1] = SumTargetLength(self.cs_ops)

(***************************************************************************)
(* C9  No internal failure.  As claimed: on an Alignment of at least one   *)
(* operation, extract_cs of an interval with end > start >= 0 returns None *)
(* or a tuple; it raises neither a RuntimeError nor an AssertionError.     *)
(***************************************************************************)
C9_NoInternalFailure ==
    ValidCall /\ self.nops >= 1 => call.out.kind \in {"None", "tuple"}

\* the 0-based indices of the operations of the Alignment
OpIdx == 0..(self.nops - 1)

\* the call that just ended chose an end op
ChoseEndIdx == call.pc = "done" /\ call.out.end_idx >= 0

(***************************************************************************)
(* C8  End op, as claimed: for an interval with end > start >= 0 that is   *)
(* not fast-rejected, end_idx is the last index whose start is < end.      *)
(***************************************************************************)
C8_EndIdxLastStartBelowEnd ==
    ChoseEndIdx
    => call.out.end_idx
         = MaxOf({i \in OpIdx : At(self.cs_ops_starts, i) < call.end})

(***************************************************************************)
(* C8  End op, amended: every interval with end > start >= 0 that is not   *)
(* fast-rejected gets an end_idx, and it is the last index whose start is  *)
(* < end or whose operation has zero target length and sits exactly at     *)
(* end (an insertion at the feature's end boundary is the end op).         *)
(***************************************************************************)
C8_EndIdxAmended ==
    /\ ValidCall /\ call.out.kind # "None" => call.out.end_idx >= 0
    /\ ChoseEndIdx
       => call.out.end_idx
            = MaxOf({i \in OpIdx :
                       \/ At(self.cs_ops_starts, i) < call.end
                       \/ /\ At(self.cs_ops_starts, i) = call.end
                          /\ At(self.cs_ops_ends, i) = call.end})

\* the end op is an insertion that sits exactly at end, before a later op
C8_Witness ==
    /\ ChoseEndIdx /\ call.out.kind = "tuple"
    /\ At(self.cs_ops, call.out.end_idx)[1] = "+"
    /\ At(self.cs_ops_starts, call.out.end_idx) = call.end
    /\ call.out.end_idx < self.nops - 1

\* b lies strictly inside an operation
CutsAnOp(b) ==
    \E i \in OpIdx : At(self.cs_ops_starts, i) < b /\ b < At(self.cs_ops_ends, i)

\* the two pieces of an identity or deletion, joined
Rejoin(x, y) ==
    IF x[1] = ":" THEN <<":">> \o Str(ParseInt(Tail(x)) + ParseInt(Tail(y)))
    ELSE x \o Tail(y)

\* the operations of two adjacent parts, in order
Glue(ops1, ops2, cut) ==
    IF cut /\ ops1 # <<>> /\ ops2 # <<>> /\ ops1[Len(ops1)][1] = ops2[1][1]
           /\ ops2[1][1] \in {":", "-"}
    THEN SubSeq(ops1, 1, Len(ops1) - 1)
         \o <<Rejoin(ops1[Len(ops1)], ops2[1])>> \o Tail(ops2)
    ELSE ops1 \o ops2

(***************************************************************************)
(* C10  Adjacent features partition the script.  For a < b < c, when       *)
(* extract_cs(a, b) and extract_cs(b, c) both return tuples, so does       *)
(* extract_cs(a, c); its operations are those of the two parts in order,   *)
(* with the identity or deletion that b cuts joined again; clip5 is that   *)
(* of (a, b), clip3 that of (b, c), and clip3(a, b) = clip5(b, c) = 0.     *)
(***************************************************************************)
C10_AdjacentPartition ==
    ValidCall
    => \A b \in (call.start + 1)..(call.end - 1) :
          LET p1 == extract_cs(self, call.start, b)
              p2 == extract_cs(self, b, call.end)
          IN  p1.kind = "tuple" /\ p2.kind = "tuple"
              => /\ call.out.kind = "tuple"
                 /\ OpsOf(call.out.feature_cs)
                      = Glue(OpsOf(p1.feature_cs), OpsOf(p2.feature_cs), CutsAnOp(b))
                 /\ call.out.clip5 = p1.clip5
                 /\ call.out.clip3 = p2.clip3
                 /\ p1.clip3 = 0
                 /\ p2.clip5 = 0

\* (a, c) holds an insertion and a deletion that some b cuts, both parts returned
C10_Witness ==
    /\ ValidCall /\ call.out.kind = "tuple"
    /\ \E i \in 1..Len(call.out.feature_cs) : call.out.feature_cs[i] = "+"
    /\ \E b \in (call.start + 1)..(call.end - 1) :
          /\ extract_cs(self, call.start, b).kind = "tuple"
          /\ extract_cs(self, b, call.end).kind = "tuple"
          /\ \E i \in OpIdx : /\ At(self.cs_ops_starts, i) < b
                              /\ b < At(self.cs_ops_ends, i)
                              /\ At(self.cs_ops, i)[1] = "-"

\* the insertions of the Alignment that sit at target coordinate b
InsertionsAt(b) ==
    {i \in OpIdx : At(self.cs_ops, i)[1] = "+" /\ At(self.cs_ops_starts, i) = b}

\* the returned script holds operation i of the Alignment, whole
Holds(out, i) ==
    /\ out.kind = "tuple"
    /\ out.start_idx <= i /\ i <= out.end_idx
    /\ LET ops == OpsOf(out.feature_cs)
       IN  /\ Len(ops) = out.end_idx - out.start_idx + 1
           /\ ops[i - out.start_idx + 1] = At(self.cs_ops, i)

\* every operation after operation i in the returned script is of kind k,
\* or, for k = "", of zero target length
TrailsWith(out, i, k) ==
    LET ops == OpsOf(out.feature_cs)
    IN  \A j \in (i - out.start_idx + 2)..Len(ops) :
           IF k = "" THEN TargetLength(ops[j]) = 0 ELSE ops[j][1] = k

(***************************************************************************)
(* C2  Insertion boundary rule, as claimed: for an insertion at target     *)
(* coordinate b and features [a, b) and [b, c) with 0 <= a < b < c,        *)
(* extract_cs(a, b) returns a script with the insertion as its trailing    *)
(* operation(s) and extract_cs(b, c) returns a script without it.          *)
(***************************************************************************)
C2_InsertionBoundaryRule ==
    ValidCall
    => \A i \in InsertionsAt(call.end) : \A c \in (call.end + 1)..MaxCoord :
          LET p2 == extract_cs(self, call.end, c)
          IN  /\ Holds(call.out, i)
              /\ TrailsWith(call.out, i, "+")
              /\ p2.kind = "tuple"
              /\ ~Holds(p2, i)

(***************************************************************************)
(* C2  Insertion boundary rule, amended: for an insertion at target        *)
(* coordinate b > target_clip5 (some aligned base precedes it) and         *)
(* 0 <= a < b < c, extract_cs(a, b) returns a script that holds the        *)
(* insertion, followed only by operations of zero target length, and       *)
(* extract_cs(b, c) returns None or a script without the insertion.        *)
(***************************************************************************)
C2_InsertionBoundaryAmended ==
    ValidCall /\ call.end > self.target_clip5
    => \A i \in InsertionsAt(call.end) : \A c \in (call.end + 1)..MaxCoord :
          LET p2 == extract_cs(self, call.end, c)
          IN  /\ Holds(call.out, i)
              /\ TrailsWith(call.out, i, "")
              /\ p2.kind \in {"None", "tuple"}
              /\ ~Holds(p2, i)

\* [a, b) was extracted with an insertion at b that an operation follows, so
\* that [b, c) is returned too
C2_Witness ==
    /\ ValidCall /\ call.out.kind = "tuple"
    /\ \E i \in InsertionsAt(call.end) :
          /\ Holds(call.out, i)
          /\ i < self.nops - 1
          /\ extract_cs(self, call.end, call.end + 1).kind = "tuple"

(***************************************************************************)
(* SpecTok: split_cs, cs_op_type and cs_op_len_target on arbitrary text    *)
(***************************************************************************)
MaxTextLen == 4

\* an operator of each kind, a base, a digit, and a character of no cs tag
TextAlphabet == {":", "*", "+", "-", "a", "1", "="}

RECURSIVE TextsOfLen(_)
TextsOfLen(n) ==
    IF n = 0 THEN {<<>>}
    ELSE {Append(t, c) : t \in TextsOfLen(n - 1), c \in TextAlphabet}

Texts == UNION {TextsOfLen(n) : n \in 0..MaxTextLen}

\* the two documented values of `invalid` and one that is neither
Policies == {"raise", "ignore", "skip"}

InitTok ==
    /\ text \in Texts
    /\ invalid \in Policies
    /\ tokcall = [op |-> "", out |-> ReturnNone]
    /\ sam = [is_unmapped |-> TRUE, reference_start |-> 0, cs |-> <<>>]
    /\ self = NewAlignment /\ self0 = NewAlignment /\ call = Idle /\ th = <<>>
    /\ mcs = <<>> /\ offset = 0 /\ mut = ReturnNone

SplitCs ==
    /\ tokcall.op = ""
    /\ tokcall' = [op |-> "split_cs", out |-> split_cs(text, invalid)]
    /\ UNCHANGED <<text, invalid, sam, self, self0, call, th, mcs, offset, mut>>

CsOpType ==
    /\ tokcall.op = ""
    /\ tokcall' = [op |-> "cs_op_type", out |-> cs_op_type(text, invalid)]
    /\ UNCHANGED <<text, invalid, sam, self, self0, call, th, mcs, offset, mut>>

CsOpLenTarget ==
    /\ tokcall.op = ""
    /\ tokcall' = [op |-> "cs_op_len_target", out |-> cs_op_len_target(text, invalid)]
    /\ UNCHANGED <<text, invalid, sam, self, self0, call, th, mcs, offset, mut>>

NextTok == SplitCs \/ CsOpType \/ CsOpLenTarget

SpecTok == InitTok /\ [][NextTok]_vars

(***************************************************************************)
(* C4  Unrecognized policy value, as claimed: a call of split_cs,          *)
(* cs_op_type or cs_op_len_target whose `invalid` is neither 'raise' nor   *)
(* 'ignore' raises, whatever the text is.                                  *)
(***************************************************************************)
C4_UnrecognizedPolicyRaises ==
    tokcall.op # "" /\ invalid \notin {"raise", "ignore"}
    => tokcall.out.kind = "raise"

(***************************************************************************)
(* C5  Round-trip tokenization.  split_cs of a text that is a              *)
(* concatenation of operations returns a list of operations whose          *)
(* concatenation is the text; of any other text it returns no list (it     *)
(* raises or returns None).                                                *)
(***************************************************************************)
C5_RoundTrip ==
    tokcall.op = "split_cs"
    => IF IsCsText(text)
       THEN /\ tokcall.out.kind = "list"
            /\ Join(tokcall.out.val) = text
            /\ \A i \in 1..Len(tokcall.out.val) : IsOpText(tokcall.out.val[i])
       ELSE tokcall.out.kind \in {"None", "raise"}

\* a text of several operations was split
C5_Witness ==
    /\ tokcall.op = "split_cs" /\ tokcall.out.kind = "list"
    /\ Len(tokcall.out.val) >= 2
    /\ Join(tokcall.out.val) = text

(***************************************************************************)
(* cs_to_mutation_str                                                      *)
(***************************************************************************)
\* line 457: ''.join([cs_op[1], str(seq_loc), cs_op[2]]).upper()
SubstitutionStr(cs_op, seq_loc) ==
    Upper(<<At(cs_op, 1)>> \o Str(seq_loc) \o <<At(cs_op, 2)>>)

\* line 461: ''.join(['ins', str(seq_loc), cs_op[1:].upper()])
InsertionStr(cs_op, seq_loc) ==
    <<"i", "n", "s">> \o Str(seq_loc) \o Upper(PySliceFrom(cs_op, 1))

\* Sensitivity variant of DeletionStr: the end printed is exclusive,
\* seq_loc + len(cs_op) - 1
DeletionStrExclusive(cs_op, seq_loc) ==
    <<"d", "e", "l">> \o Str(seq_loc) \o <<"t", "o">> \o Str(seq_loc + Len(cs_op) - 1)

\* lines 464-465: ''.join(['del', str(seq_loc), 'to', str(seq_loc+len(cs_op)-2)])
DeletionStr(cs_op, seq_loc) ==
    <<"d", "e", "l">> \o Str(seq_loc) \o <<"t", "o">> \o Str(seq_loc + Len(cs_op) - 2)

\* the for loop of lines 451-469 over the rest of cs_list, from the cursor
\* seq_loc and the descriptors appended so far
RECURSIVE MutationLoop(_, _, _)
MutationLoop(cs_list, seq_loc, mut_strs_list) ==
    IF cs_list = <<>> THEN [exc |-> "", list |-> mut_strs_list]
    ELSE
    LET cs_op == Head(cs_list)
        op_type == cs_op_type(cs_op, "raise")
    IN  IF op_type.kind = "raise" THEN [exc |-> op_type.exc, list |-> mut_strs_list]
        ELSE IF op_type.val = "identity"
        THEN MutationLoop(Tail(cs_list),
                          seq_loc + cs_op_len_target(cs_op, "raise").val,
                          mut_strs_list)
        ELSE IF op_type.val = "substitution"
        THEN MutationLoop(Tail(cs_list), seq_loc + 1,
                          IF At(cs_op, 1) # "n"
                          THEN Append(mut_strs_list, SubstitutionStr(cs_op, seq_loc))
                          ELSE mut_strs_list)
        ELSE IF op_type.val = "insertion"
        THEN MutationLoop(Tail(cs_list), seq_loc,
                          Append(mut_strs_list, InsertionStr(cs_op, seq_loc)))
        ELSE IF op_type.val = "deletion"
        THEN MutationLoop(Tail(cs_list), seq_loc + Len(cs_op) - 1,
                          Append(mut_strs_list, DeletionStr(cs_op, seq_loc)))
        ELSE [exc |-> "ValueError", list |-> mut_strs_list]

\* cs_to_mutation_str(cs, offset): the str returned, with mut_strs_list as
\* it stood at the return
cs_to_mutation_str(cs, off) ==
    LET cs_list == split_cs(cs, "raise")
    IN  IF cs_list.kind = "raise"
        THEN [kind |-> "raise", exc |-> cs_list.exc, val |-> <<>>, list |-> <<>>]
        ELSE LET r == MutationLoop(cs_list.val, 1 + off, <<>>)
             IN  IF r.exc # ""
                 THEN [kind |-> "raise", exc |-> r.exc, val |-> <<>>, list |-> r.list]
                 ELSE [kind |-> "str", exc |-> "", val |-> JoinSep(<<" ">>, r.list),
                       list |-> r.list]

(***************************************************************************)
(* SpecMut: cs_to_mutation_str on scripts and offsets                      *)
(***************************************************************************)
MaxOffset == 2

\* identities of one and two digits, substitutions from a base and from n,
\* an insertion, deletions of one and two bases
MutOpUniverse ==
    { <<":", "2">>, <<":", "1", "0">>, <<"*", "a", "t">>, <<"*", "n", "t">>,
      <<"+", "g", "a">>, <<"-", "a">>, <<"-", "t", "c">> }

RECURSIVE MutOpLists(_)
MutOpLists(n) ==
    IF n = 0 THEN {<<>>}
    ELSE LET shorter == MutOpLists(n - 1)
         IN  shorter \cup {Append(l, op) : l \in {x \in shorter : Len(x) = n - 1},
                                           op \in MutOpUniverse}

MutCsTags == {Join(l) : l \in MutOpLists(MaxOps)} \cup {<<"b", "a", "d", ":", "2">>}

InitMut ==
    /\ mcs \in MutCsTags
    /\ offset \in (-1)..MaxOffset
    /\ mut = [kind |-> "", exc |-> "", val |-> <<>>, list |-> <<>>]
    /\ sam = [is_unmapped |-> TRUE, reference_start |-> 0, cs |-> <<>>]
    /\ self = NewAlignment /\ self0 = NewAlignment /\ call = Idle /\ th = <<>>
    /\ text = <<>> /\ invalid = "raise" /\ tokcall = [op |-> "", out |-> ReturnNone]

CsToMutationStr ==
    /\ mut.kind = ""
    /\ mut' = cs_to_mutation_str(mcs, offset)
    /\ UNCHANGED <<text, invalid, tokcall, sam, self, self0, call, th, mcs, offset>>

NextMut == CsToMutationStr

SpecMut == InitMut /\ [][NextMut]_vars

\* what the descriptors are to be, from the positions of the operations
PositionOf(ops, i) == 1 + offset + SumTargetLength(SubSeq(ops, 1, i - 1))

DescriptorOf(ops, i) ==
    LET t == ops[i]
        p == PositionOf(ops, i)
    IN  CASE t[1] = "+" -> <<"i", "n", "s">> \o Str(p) \o Upper(Tail(t))
          [] t[1] = "-" ->
               <<"d", "e", "l">> \o Str(p) \o <<"t", "o">> \o Str(p + (Len(t) - 1) - 1)
          [] t[1] = "*" -> <<UpperChar(t[2])>> \o Str(p) \o <<UpperChar(t[3])>>

Described(t) == t[1] \in {"+", "-"} \/ (t[1] = "*" /\ t[2] # "n")

RECURSIVE DescriptorsFrom(_, _)
DescriptorsFrom(ops, i) ==
    IF i > Len(ops) THEN <<>>
    ELSE (IF Described(ops[i]) THEN <<DescriptorOf(ops, i)>> ELSE <<>>)
         \o DescriptorsFrom(ops, i + 1)

(***************************************************************************)
(* C7  Mutation-description positions.  For a valid cs and an offset,      *)
(* cs_to_mutation_str returns, space-joined and in the order of the        *)
(* operations, one descriptor per insertion, per deletion and per          *)
(* substitution whose target base is not n, and none for the rest; the     *)
(* position printed for an operation is 1 + offset + the target lengths of *)
(* the operations before it (so an insertion shifts nothing), and a        *)
(* deletion of k bases at p is printed to the inclusive end p + k - 1.     *)
(***************************************************************************)
C7_MutationPositions ==
    mut.kind # "" /\ IsCsText(mcs)
    => /\ mut.kind = "str"
       /\ mut.list = DescriptorsFrom(OpsOf(mcs), 1)
       /\ mut.val = JoinSep(<<" ">>, DescriptorsFrom(OpsOf(mcs), 1))

\* a deletion of several bases, an insertion and a substitution were
\* described after an identity, from a non-zero offset
C7_Witness ==
    /\ mut.kind = "str" /\ Len(mut.list) = 2 /\ offset # 0
    /\ OpsOf(mcs)[1][1] = ":"
    /\ OpsOf(mcs)[2] = <<"-", "t", "c">>
    /\ OpsOf(mcs)[3][1] = "+"

(***************************************************************************)
(* SpecThreads: two threads call extract_cs on one Alignment.  A call is   *)
(* taken in four steps, in the order of its statements (the argument       *)
(* checks, the start op, the end op, the assembly with its check), and the *)
(* steps of the two calls interleave; each step reads the attributes of    *)
(* self as they are then.                                                  *)
(***************************************************************************)
Threads == {1, 2}

NoStartPart == StartPartOf("", "", -1, 0, <<>>)

NoEndPart == EndPartOf("", "", -1, 0, <<>>)

ThreadIdle ==
    [pc |-> "idle", start |-> 0, end |-> 0, sp |-> NoStartPart, ep |-> NoEndPart,
     out |-> NoOutcome]

\* segments whose scripts hold each kind of operation, with and without a
\* 5' offset
ThreadSegments ==
    { [is_unmapped |-> FALSE, reference_start |-> 1, cs |-> <<":", "3">>],
      [is_unmapped |-> FALSE, reference_start |-> 0,
       cs |-> <<"-", "a", "c", "g", "+", "a", ":", "1">>],
      [is_unmapped |-> FALSE, reference_start |-> 1,
       cs |-> <<":", "1", "+", "a", "*", "a", "c">>],
      [is_unmapped |-> FALSE, reference_start |-> 1, cs |-> <<"+", "a">>] }

InitThreads ==
    /\ sam \in ThreadSegments
    /\ self = NewAlignment
    /\ self0 = NewAlignment
    /\ call = Idle
    /\ th = [t \in Threads |-> ThreadIdle]
    /\ text = <<>> /\ invalid = "raise" /\ tokcall = [op |-> "", out |-> ReturnNone]
    /\ mcs = <<>> /\ offset = 0 /\ mut = ReturnNone

\* lines 264-273: the call is entered and its arguments checked
ThreadCall(t) ==
    /\ self.phase = "ok"
    /\ th[t].pc = "idle"
    /\ \E start \in -1..MaxCoord, end \in 0..MaxCoord :
          LET a == ExtractArgs(self, start, end)
              c == [ThreadIdle EXCEPT !.start = start, !.end = end]
          IN  /\ th' = [th EXCEPT ![t] =
                    IF a = "" THEN [c EXCEPT !.pc = "start_op"]
                    ELSE IF a = "None"
                    THEN [c EXCEPT !.pc = "done", !.out.kind = "None"]
                    ELSE [c EXCEPT !.pc = "done", !.out.kind = "raise",
                                   !.out.exc = "ValueError", !.out.at = a]]
              /\ self' = ExtractStores(self, start, end)
    /\ UNCHANGED <<text, invalid, tokcall, sam, self0, call, mcs, offset, mut>>

\* lines 275-305
ThreadStartOp(t) ==
    /\ th[t].pc = "start_op"
    /\ LET sp == ExtractStart(self, th[t].start, th[t].end)
       IN  th' = [th EXCEPT ![t] =
                IF sp.exc # ""
                THEN [@ EXCEPT !.pc = "done", !.sp = sp,
                               !.out = Outcome("raise", sp.exc, sp.at, <<>>, sp.clip5,
                                               0, sp.start_idx, -1)]
                ELSE [@ EXCEPT !.pc = "end_op", !.sp = sp]]
    /\ self' = ExtractStores(self, th[t].start, th[t].end)
    /\ UNCHANGED <<text, invalid, tokcall, sam, self0, call, mcs, offset, mut>>

\* lines 307-339
ThreadEndOp(t) ==
    /\ th[t].pc = "end_op"
    /\ LET sp == th[t].sp
           ep == ExtractEnd(self, th[t].start, th[t].end, sp.start_idx)
       IN  th' = [th EXCEPT ![t] =
                IF ep.exc # ""
                THEN [@ EXCEPT !.pc = "done", !.ep = ep,
                               !.out = Outcome("raise", ep.exc, ep.at, <<>>, sp.clip5,
                                               ep.clip3, sp.start_idx, ep.end_idx)]
                ELSE [@ EXCEPT !.pc = "assemble", !.ep = ep]]
    /\ self' = ExtractStores(self, th[t].start, th[t].end)
    /\ UNCHANGED <<text, invalid, tokcall, sam, self0, call, mcs, offset, mut>>

\* lines 341-366
ThreadAssemble(t) ==
    /\ th[t].pc = "assemble"
    /\ LET sp == th[t].sp
           ep == th[t].ep
           as == ExtractAssemble(self, th[t].start, th[t].end, sp, ep)
           v == ExtractVerify(as.feature_cs, sp.clip5, ep.clip3, th[t].start, th[t].end)
       IN  th' = [th EXCEPT ![t].pc = "done", ![t].out =
                IF as.exc # ""
                THEN Outcome("raise", as.exc, as.at, <<>>, sp.clip5, ep.clip3,
                             sp.start_idx, ep.end_idx)
                ELSE IF v # ""
                THEN Outcome("raise", v, "length conservation", as.feature_cs,
                             sp.clip5, ep.clip3, sp.start_idx, ep.end_idx)
                ELSE Outcome("tuple", "", "", as.feature_cs, sp.clip5, ep.clip3,
                             sp.start_idx, ep.end_idx)]
    /\ self' = ExtractStores(self, th[t].start, th[t].end)
    /\ UNCHANGED <<text, invalid, tokcall, sam, self0, call, mcs, offset, mut>>

\* the caller takes the outcome; the thread may call again
ThreadReturn(t) ==
    /\ th[t].pc = "done"
    /\ th' = [th EXCEPT ![t] = ThreadIdle]
    /\ UNCHANGED <<text, invalid, tokcall, sam, self, self0, call, mcs, offset, mut>>

NextThreads ==
    \/ Construct
    \/ \E t \in Threads : ThreadCall(t)
    \/ \E t \in Threads : ThreadStartOp(t)
    \/ \E t \in Threads : ThreadEndOp(t)
    \/ \E t \in Threads : ThreadAssemble(t)
    \/ \E t \in Threads : ThreadReturn(t)

SpecThreads == InitThreads /\ [][NextThreads]_vars

(***************************************************************************)
(* C6  extract_cs is read-only.  Through every interleaving of the calls   *)
(* of the two threads (returning a tuple, returning None or raising), the  *)
(* Alignment stays as __init__ left it, and a call that has ended has the  *)
(* outcome that extract_cs(start, end) has on the Alignment as             *)
(* constructed, whatever calls ran before it or beside it.                 *)
(***************************************************************************)
C6_ExtractReadOnly ==
    self.phase = "ok"
    => /\ self = self0
       /\ \A t \in Threads :
             th[t].pc = "done"
             => th[t].out = extract_cs(self0, th[t].start, th[t].end)

\* one thread has a tuple in hand, cut out of a deletion, while the other is
\* between the start op and the end op of its own call
C6_Witness ==
    /\ th[1].pc = "done" /\ th[1].out.kind = "tuple"
    /\ th[1].out.feature_cs = <<"-", "c">>
    /\ th[2].pc = "end_op"

====
